---------------------------- MODULE Spec2Model ----------------------------
(***************************************************************************)
(* Model of scripts/data_reader.py (JEDCO Data Reader): the pipeline       *)
(*   check_dependencies -> check_file_exists -> ensure_output_dir ->       *)
(*   read_excel_data -> validate_columns -> convert_to_json_safe ->        *)
(*   save_to_json                                                          *)
(* run by main, and save_to_json called on its own with any filename.      *)
(*                                                                         *)
(* The Arabic literals of the script are written in Latin transliteration  *)
(* (the original is given in the comment beside each); a literal is only   *)
(* ever compared for equality or searched for the substring "output".      *)
(***************************************************************************)
EXTENDS Integers, Sequences, FiniteSets, TLC

(***************************************************************************)
(* Bounds of the model.                                                    *)
(***************************************************************************)
\* Most data rows of the worksheet read by main.
MaxRows == 2
\* Most records of a list handed directly to save_to_json.
MaxWriterRows == 2

(***************************************************************************)
(* Paths (pathlib): a path is the sequence of its components, an absolute  *)
(* one starting with the drive "C:" (EXCEL_PATH is a Windows path).        *)
(***************************************************************************)
Sep == "\\"

IsAbsolute(p) == Len(p) > 0 /\ p[1] = "C:"

\* Path.parent
Parent(p) == SubSeq(p, 1, Len(p) - 1)

\* Path.name
Name(p) == p[Len(p)]

\* Path.__truediv__: an absolute right operand replaces the left one; ".."
\* components are kept as they are written.
Join(base, other) == IF IsAbsolute(other) THEN other ELSE base \o other

\* str(Path): the components joined by the separator.
RECURSIVE PathStr(_)
PathStr(p) ==
    IF Len(p) = 0 THEN "."
    ELSE IF Len(p) = 1 THEN p[1]
    ELSE PathStr(Parent(p)) \o Sep \o Name(p)

\* The `in` operator of two strings: sub occurs somewhere in s.
Contains(s, sub) ==
    \E i \in 1..(Len(s) - Len(sub) + 1) : SubSeq(s, i, i + Len(sub) - 1) = sub

\* What the operating system opens for a path: ".." steps to the parent
\* (lexically, as Windows does), never above the drive.
RECURSIVE Resolve(_)
Resolve(p) ==
    IF Len(p) = 0 THEN <<>>
    ELSE LET r == Resolve(Parent(p))
         IN  IF Name(p) = ".."
             THEN (IF Len(r) > 1 THEN Parent(r) ELSE r)
             ELSE Append(r, Name(p))

\* dir is a proper ancestor of p (both resolved).
IsAncestor(dir, p) ==
    /\ Len(dir) < Len(p)
    /\ SubSeq(p, 1, Len(dir)) = dir

\* EXCEL_PATH = Path(r"C:\Users\pcpz1\Desktop\JEDCO_Fail_HT\JEDCO_Tabel_Record\JEDCO_HT.xlsx")
EXCEL_PATH ==
    <<"C:", "Users", "pcpz1", "Desktop", "JEDCO_Fail_HT", "JEDCO_Tabel_Record",
      "JEDCO_HT.xlsx">>

\* __file__: where the script is installed.
SCRIPT_FILE == <<"C:", "jedco", "scripts", "data_reader.py">>

SCRIPT_DIR == Parent(SCRIPT_FILE)

PROJECT_DIR == Parent(SCRIPT_DIR)

OUTPUT_DIR == Join(PROJECT_DIR, <<"output">>)

\* SHEET_NAME = "التسجيل"
SHEET_NAME == "al-tasjil"

\* EXPECTED_COLUMNS, A to P.
EXPECTED_COLUMNS ==
    << "m",                  \* م
       "raqm al-lawha",      \* رقم اللوحة
       "al-naqil al-barri",  \* الناقل البري
       "raqm al-rihla",      \* رقم الرحلة
       "adad al-rihlat",     \* عدد الرحلات
       "adad al-rukkab",     \* عدد الركاب
       "naw al-tashira",     \* نوع التأشيرة
       "waqt al-iqla",       \* وقت الإقلاع
       "waqt wusul al-hafila", \* وقت وصول الحافلة
       "sharikat al-umra",   \* شركة العمرة
       "halat al-rihla",     \* حالة الرحلة
       "wad al-rihla",       \* وضع الرحلة
       "halat al-hajz",      \* حالة الحجز
       "al-jinsiya",         \* الجنسية
       "al-wijha",           \* الوجهة
       "al-ijra al-muttakhadh" \* الإجراء المتخذ
    >>

\* REQUIRED_COLUMNS = list(range(16)): the columns A-P, here numbered from 1.
REQUIRED_COLUMNS == 1..Len(EXPECTED_COLUMNS)

(***************************************************************************)
(* Cell values.  Every value has the same three fields, so that any two    *)
(* can be compared: t its type, s its text, n its numbers.                 *)
(***************************************************************************)
Str(s) == [t |-> "str", s |-> s, n |-> <<>>]
Num(k) == [t |-> "num", s |-> "", n |-> <<k>>]
\* datetime.datetime(Y, M, D, h, m, s)
DateTime(f) == [t |-> "datetime", s |-> "", n |-> f]
\* datetime.timedelta as <<days, hours, minutes, seconds>>
TimeDelta(f) == [t |-> "timedelta", s |-> "", n |-> f]
\* An empty worksheet cell.
Empty == [t |-> "empty", s |-> "", n |-> <<>>]
\* float('nan'), pandas.NaT, None
NaN == [t |-> "nan", s |-> "", n |-> <<>>]
NaT == [t |-> "nat", s |-> "", n |-> <<>>]
None == [t |-> "null", s |-> "", n |-> <<>>]

\* pandas.notnull of one value.
notnull(v) == v.t \notin {"nan", "nat", "null"}

Pad2(k) == IF k < 10 THEN "0" \o ToString(k) ELSE ToString(k)

\* strftime('%Y-%m-%d %H:%M:%S') of a datetime (years of four digits).
strftime(v) ==
    ToString(v.n[1]) \o "-" \o Pad2(v.n[2]) \o "-" \o Pad2(v.n[3]) \o " "
        \o Pad2(v.n[4]) \o ":" \o Pad2(v.n[5]) \o ":" \o Pad2(v.n[6])

\* str of a timedelta, as pandas prints it: "0 days 01:30:00".
TimedeltaStr(v) ==
    ToString(v.n[1]) \o " days " \o Pad2(v.n[2]) \o ":" \o Pad2(v.n[3])
        \o ":" \o Pad2(v.n[4])


(***************************************************************************)
(* State.                                                                  *)
(***************************************************************************)
VARIABLES
    pc,             \* where main (or the direct caller of save_to_json) stands
    exitCode,       \* the exit status of the process: 0 or 1, -1 while it runs
    installed,      \* the libraries that can be imported
    pandasVersion,  \* the pandas that is installed: "old" (< 1.3) or "new"
    fs,             \* the files that exist: resolved path -> content
    dirs,           \* the directories that exist (resolved paths)
    fs0,            \* the files as they were when the process started
    df,             \* what read_excel_data returned
    validRet,       \* what validate_columns returned: "none", "True", "False"
    saveCalls,      \* how many times save_to_json was called
    saveArgs,       \* the arguments of the last call of save_to_json
    saveRet,        \* what it returned: "none", "True" or "False"
    stages          \* the stages of main executed so far, in order

vars ==
    <<pc, exitCode, installed, pandasVersion, fs, dirs, fs0, df, validRet,
      saveCalls, saveArgs, saveRet, stages>>

(***************************************************************************)
(* The worksheet and pandas.read_excel.                                    *)
(***************************************************************************)
\* A worksheet as read_excel sees it: the header row (row 5, HEADER_ROW = 4)
\* and the rows below it, each of the 16 cells of columns A-P.
Sheet(header, rows) == [header |-> header, rows |-> rows]

\* The cells of column c, top to bottom.
ColumnOf(rows, c) == [i \in 1..Len(rows) |-> rows[i][c]]

\* The dtype pandas infers for a column of cells: a column whose non-empty
\* cells are all date/times becomes datetime64[ns], all durations
\* timedelta64[ns], all numbers int64 (float64 when a cell is empty); a
\* column of mixed cells, or of text, stays object.
InferDtype(cells) ==
    LET kinds == {cells[i].t : i \in 1..Len(cells)} \ {"empty"}
        holes == \E i \in 1..Len(cells) : cells[i].t = "empty"
    IN  IF Len(cells) = 0 THEN "object"
        ELSE IF kinds = {} THEN "float64"
        ELSE IF kinds = {"num"} THEN (IF holes THEN "float64" ELSE "int64")
        ELSE IF kinds = {"datetime"} THEN "datetime64[ns]"
        ELSE IF kinds = {"timedelta"} THEN "timedelta64[ns]"
        ELSE "object"

\* The value pandas holds for a cell in a column of the given dtype: an
\* empty cell is NaT in a date/time or duration column and NaN elsewhere.
CellInFrame(dtype, cell) ==
    IF cell.t = "empty"
    THEN (IF dtype \in {"datetime64[ns]", "timedelta64[ns]"} THEN NaT ELSE NaN)
    ELSE cell

\* df is None
NoneDf == [isNone |-> TRUE, columns |-> <<>>, dtypes |-> <<>>, rows |-> <<>>]

\* pd.read_excel(EXCEL_PATH, sheet_name=SHEET_NAME, header=HEADER_ROW,
\*               usecols=REQUIRED_COLUMNS, engine='openpyxl')
read_excel(sheet) ==
    LET dtypes == [c \in REQUIRED_COLUMNS |-> InferDtype(ColumnOf(sheet.rows, c))]
    IN  [isNone  |-> FALSE,
         columns |-> [c \in REQUIRED_COLUMNS |-> sheet.header[c]],
         dtypes  |-> dtypes,
         rows    |-> [i \in 1..Len(sheet.rows) |->
                        [c \in REQUIRED_COLUMNS |->
                            CellInFrame(dtypes[c], sheet.rows[i][c])]]]

\* len(df)
len(frame) == Len(frame.rows)

(***************************************************************************)
(* validate_columns and convert_to_json_safe.                              *)
(***************************************************************************)
\* The line validate_columns logs about the first column.
ValidateMessage(frame) ==
    IF frame.columns[1] # "m" THEN "warning" ELSE "success"

\* A validator that reports a renamed first column as a failure.
validate_columns_strict(frame) == frame.columns[1] = "m"

validate_columns(frame) == TRUE

\* The loop over df_copy.columns: a datetime64[ns] column is formatted with
\* strftime (NaT gives NaN), a timedelta64[ns] column is cast with
\* astype(str) (NaT gives the text "NaT"); any other column is left alone.
ConvertCell(dtype, v) ==
    IF dtype = "datetime64[ns]"
    THEN (IF v.t = "datetime" THEN Str(strftime(v)) ELSE NaN)
    ELSE IF dtype = "timedelta64[ns]"
    THEN (IF v.t = "timedelta" THEN Str(TimedeltaStr(v)) ELSE Str("NaT"))
    ELSE v

\* The dtype of a column after that loop.
ConvertedDtype(dtype) ==
    IF dtype \in {"datetime64[ns]", "timedelta64[ns]"} THEN "object" ELSE dtype

\* df_copy.where(pd.notnull(df_copy), None) of one value: a null value of an
\* object column becomes None; in a float64 column pandas >= 1.3 casts the
\* None back to NaN, older versions turn the column into object.
WhereNotnull(dtype, v) ==
    IF notnull(v) THEN v
    ELSE IF dtype = "float64" /\ pandasVersion = "new" THEN NaN
    ELSE None

\* convert_to_json_safe(df): the records of to_dict(orient='records'), each
\* the sequence of its (key, value) pairs in column order.
convert_to_json_safe(frame) ==
    [i \in 1..Len(frame.rows) |->
        [c \in 1..Len(frame.columns) |->
            [k |-> frame.columns[c],
             v |-> WhereNotnull(ConvertedDtype(frame.dtypes[c]),
                                ConvertCell(frame.dtypes[c], frame.rows[i][c]))]]]


(***************************************************************************)
(* Files, the export document and save_to_json.                            *)
(***************************************************************************)
\* The proper ancestors of a path.
Ancestors(p) == {SubSeq(p, 1, k) : k \in 1..(Len(p) - 1)}

\* A return value as the state records it.
Ret(b) == IF b THEN "True" ELSE "False"

\* The envelope of a file that holds no export.
NoDoc ==
    [metadata |-> [source |-> "", sheet |-> "", exported_at |-> "",
                   total_records |-> 0, columns |-> <<>>],
     data |-> <<>>]

\* The content of a file: the spreadsheet ("xlsx"), a complete export
\* ("export"), or the beginning of one, cut where the writing stopped
\* ("partial").
Content(kind, doc) == [kind |-> kind, doc |-> doc]

\* datetime.now().isoformat() of this run, and of an earlier run.
Now == "2026-01-25T09:00:00"
Earlier == "2026-01-24T09:00:00"

\* An envelope whose record count is taken from the fixed column list.
output_data_count_columns(data) ==
    [metadata |-> [source |-> Name(EXCEL_PATH), sheet |-> SHEET_NAME,
                   exported_at |-> Now, total_records |-> Len(EXPECTED_COLUMNS),
                   columns |-> EXPECTED_COLUMNS],
     data |-> data]

\* output_data = {"metadata": {...}, "data": data}
output_data(data) ==
    [metadata |-> [source |-> Name(EXCEL_PATH), sheet |-> SHEET_NAME,
                   exported_at |-> Now, total_records |-> Len(data),
                   columns |-> EXPECTED_COLUMNS],
     data |-> data]

\* A guard that was left out.
GuardRefuses_never(output_path) == FALSE

\* if "output" not in str(output_path): ... return False
GuardRefuses(output_path) == ~Contains(PathStr(output_path), "output")

\* json can encode the value: text, numbers (NaN too, allow_nan is on),
\* booleans and None; a datetime, a timedelta or NaT raises TypeError.
Serializable(v) == v.t \in {"str", "num", "bool", "null", "nan"}

\* The first record of data that holds a value json cannot encode; 0 if none.
FirstBad(data) ==
    LET bad == {i \in 1..Len(data) :
                    \E c \in 1..Len(data[i]) : ~Serializable(data[i][c].v)}
    IN  IF bad = {} THEN 0
        ELSE CHOOSE i \in bad : \A j \in bad : i <= j

\* What the environment does to one write: "ok", "open_error" (open raises:
\* no permission, the target is locked), or "write_error" after k records
\* (the disk fills while json.dump is writing).
IoOutcomes(data) ==
    {[e |-> "ok", k |-> 0], [e |-> "open_error", k |-> 0]}
        \cup {[e |-> "write_error", k |-> j] : j \in 0..Len(data)}

Min(a, b) == IF a <= b THEN a ELSE b

\* with open(output_path, 'w') as f: json.dump(output_data, f, ...)
\* The result is [raised, files]: open truncates the file, json.dump writes
\* the envelope piece by piece and stops at the first value it cannot
\* encode or at the I/O error, leaving what it wrote so far.
OpenAndDump(output_path, doc, io) ==
    LET target == Resolve(output_path)
        bad    == FirstBad(doc.data)
        stop   == IF io.e = "write_error"
                  THEN (IF bad > 0 THEN Min(io.k, bad - 1) ELSE io.k)
                  ELSE bad - 1
        put(c) == [q \in DOMAIN fs \cup {target} |-> IF q = target THEN c ELSE fs[q]]
    IN  IF io.e = "open_error" \/ Parent(target) \notin dirs \/ target \in dirs
        THEN [raised |-> TRUE, files |-> fs]
        ELSE IF io.e = "write_error" \/ bad > 0
        THEN [raised |-> TRUE,
              files  |-> put(Content("partial",
                             [doc EXCEPT !.data = SubSeq(doc.data, 1, stop)]))]
        ELSE [raised |-> FALSE, files |-> put(Content("export", doc))]

\* save_to_json(data, filename) under the I/O outcome io: what it returns
\* and the files it leaves.
save_to_json(data, filename, io) ==
    LET output_path == Join(OUTPUT_DIR, filename)
    IN  IF GuardRefuses(output_path)
        THEN [ret |-> FALSE, files |-> fs]
        ELSE LET w == OpenAndDump(output_path, output_data(data), io)
             IN  [ret |-> ~w.raised, files |-> w.files]


(***************************************************************************)
(* The inputs the model draws.                                             *)
(***************************************************************************)
\* All sequences over S of length at most n.
SeqsUpTo(S, n) == UNION {[1..k -> S] : k \in 0..n}

\* The header row as expected, and with the first column renamed.
Headers == {EXPECTED_COLUMNS, [EXPECTED_COLUMNS EXCEPT ![1] = "Number"]}

\* One data row with every cell filled.
BaseRow ==
    << Num(1), Str("ABC 1234"), Str("SAPTCO"), Str("SV123"), Num(2), Num(45),
       Str("umra"), DateTime(<<2026, 1, 24, 13, 5, 0>>),
       TimeDelta(<<0, 1, 30, 0>>), Str("al-safa"), Str("arrived"),
       Str("normal"), Str("confirmed"), Str("EG"), Str("Makkah"), Str("none") >>

\* The rows drawn: the departure time (H) a date/time, a text or empty, and
\* the passenger count (F), the bus arrival (I, a duration) and the
\* nationality (N) either all filled or all empty.
RowChoices ==
    {[BaseRow EXCEPT ![8] = h, ![6] = t[1], ![9] = t[2], ![14] = t[3]] :
        h \in {BaseRow[8], Str("13:05"), Empty},
        t \in {<<BaseRow[6], BaseRow[9], BaseRow[14]>>, <<Empty, Empty, Empty>>}}

Sheets == {Sheet(h, r) : h \in Headers, r \in SeqsUpTo(RowChoices, MaxRows)}

\* The rows of the record lists handed directly to save_to_json.
WriterRowChoices ==
    {[BaseRow EXCEPT ![8] = h] : h \in {BaseRow[8], Str("13:05"), Empty}}

WriterSheets ==
    {Sheet(h, r) : h \in Headers, r \in SeqsUpTo(WriterRowChoices, MaxWriterRows)}

\* The filenames handed directly to save_to_json: the default, one in a
\* subdirectory, one that climbs out with "..", the spreadsheet itself
\* reached with "..", and absolute ones with and without "output" in them.
Filenames ==
    { <<"raw_data.json">>,
      <<"archive", "raw_data.json">>,
      <<"..", "raw_data.json">>,
      <<"..", "..">> \o SubSeq(EXCEL_PATH, 2, Len(EXCEL_PATH)),
      <<"C:", "tmp", "dump.json">>,
      <<"C:", "tmp", "output_copy.json">>,
      EXCEL_PATH }

Libraries == {"pandas", "openpyxl"}

\* The directories that exist whatever else does.
BaseDirs ==
    Ancestors(EXCEL_PATH) \cup Ancestors(SCRIPT_FILE) \cup {<<"C:", "tmp">>}

\* An export left by an earlier, successful run.
EarlierExport ==
    Content("export",
            [output_data(convert_to_json_safe(read_excel(
                 Sheet(EXPECTED_COLUMNS, <<BaseRow>>))))
                EXCEPT !.metadata.exported_at = Earlier])

\* The files and directories a run can start with: the spreadsheet present
\* or not, the output directory present or not, and in it an earlier export
\* or none.
InitialFiles ==
    {[q \in src \cup out |->
        IF q = EXCEL_PATH THEN Content("xlsx", NoDoc) ELSE EarlierExport] :
        src \in {{}, {EXCEL_PATH}},
        out \in {{}, {Join(OUTPUT_DIR, <<"raw_data.json">>)}}}

InitialDirs(files) ==
    {BaseDirs \cup d :
        d \in IF Join(OUTPUT_DIR, <<"raw_data.json">>) \in DOMAIN files
              THEN {{OUTPUT_DIR}, {OUTPUT_DIR, Join(OUTPUT_DIR, <<"archive">>)}}
              ELSE {{}, {OUTPUT_DIR}, {OUTPUT_DIR, Join(OUTPUT_DIR, <<"archive">>)}}}

NoArgs == [data |-> <<>>, filename |-> <<>>]

InitCommon ==
    /\ exitCode = -1
    /\ installed \in SUBSET Libraries
    /\ pandasVersion \in (IF "pandas" \in installed THEN {"old", "new"} ELSE {"none"})
    /\ fs \in InitialFiles
    /\ dirs \in InitialDirs(fs)
    /\ fs0 = fs
    /\ df = NoneDf
    /\ validRet = "none"
    /\ saveCalls = 0
    /\ saveArgs = NoArgs
    /\ saveRet = "none"
    /\ stages = <<>>

(***************************************************************************)
(* main, one action per stage.                                             *)
(***************************************************************************)
Init ==
    /\ pc = "check_dependencies"
    /\ InitCommon
    /\ Join(OUTPUT_DIR, <<"archive">>) \notin dirs

\* check_dependencies(): True when nothing is missing.
check_dependencies == (Libraries \ installed) = {}

\* check_file_exists(): EXCEL_PATH.exists()
check_file_exists == EXCEL_PATH \in DOMAIN fs

\* if not check_dependencies(): return 1
AfterDependencies(ok) == IF ok THEN "check_file_exists" ELSE "fail"

\* A main that goes on when the file is missing.
AfterFileCheck_ignored(ok) == "ensure_output_dir"

\* if not check_file_exists(): return 1
AfterFileCheck(ok) == IF ok THEN "ensure_output_dir" ELSE "fail"

\* if df is None: return 1
AfterRead(frame) == IF frame.isNone THEN "fail" ELSE "validate_columns"

\* A main that reports an empty worksheet as a failure.
ExitAfterExport_empty_fails(frame, saved) == IF len(frame) = 0 THEN 1 ELSE 0

\* return 0 at the end of main, whatever save_to_json returned.
ExitAfterExport(frame, saved) == 0

\* The records main hands to save_to_json: [] for an empty frame, the
\* converted records otherwise.
ExportRecords(frame) ==
    IF len(frame) = 0 THEN <<>> ELSE convert_to_json_safe(frame)

\* A stage of main ends: go on to nxt, or return 1.
Goto(nxt) ==
    /\ pc' = IF nxt = "fail" THEN "done" ELSE nxt
    /\ exitCode' = IF nxt = "fail" THEN 1 ELSE exitCode

CheckDependencies ==
    /\ pc = "check_dependencies"
    /\ stages' = Append(stages, "check_dependencies")
    /\ Goto(AfterDependencies(check_dependencies))
    /\ UNCHANGED <<installed, pandasVersion, fs, dirs, fs0, df, validRet,
                   saveCalls, saveArgs, saveRet>>

CheckFileExists ==
    /\ pc = "check_file_exists"
    /\ stages' = Append(stages, "check_file_exists")
    /\ Goto(AfterFileCheck(check_file_exists))
    /\ UNCHANGED <<installed, pandasVersion, fs, dirs, fs0, df, validRet,
                   saveCalls, saveArgs, saveRet>>

\* ensure_output_dir(): OUTPUT_DIR.mkdir(parents=True) when it is missing;
\* an OSError of mkdir is not caught and ends the process with status 1.
EnsureOutputDir ==
    /\ pc = "ensure_output_dir"
    /\ stages' = Append(stages, "ensure_output_dir")
    /\ \/ /\ OUTPUT_DIR \in dirs
          /\ dirs' = dirs
          /\ Goto("read_excel_data")
       \/ /\ OUTPUT_DIR \notin dirs
          /\ dirs' = dirs \cup Ancestors(OUTPUT_DIR) \cup {OUTPUT_DIR}
          /\ Goto("read_excel_data")
       \/ /\ OUTPUT_DIR \notin dirs
          /\ dirs' = dirs
          /\ Goto("fail")
    /\ UNCHANGED <<installed, pandasVersion, fs, fs0, df, validRet,
                   saveCalls, saveArgs, saveRet>>

\* read_excel_data(): the frame, or None when pd.read_excel raises (the
\* file is gone or locked, the sheet is missing, the workbook is corrupt).
ReadExcelData ==
    /\ pc = "read_excel_data"
    /\ stages' = Append(stages, "read_excel_data")
    /\ \/ /\ EXCEL_PATH \in DOMAIN fs
          /\ \E sheet \in Sheets : df' = read_excel(sheet)
       \/ df' = NoneDf
    /\ Goto(AfterRead(df'))
    /\ UNCHANGED <<installed, pandasVersion, fs, dirs, fs0, validRet,
                   saveCalls, saveArgs, saveRet>>

\* validate_columns(df); main does not look at what it returns.
ValidateColumns ==
    /\ pc = "validate_columns"
    /\ stages' = Append(stages, "validate_columns")
    /\ validRet' = Ret(validate_columns(df))
    /\ Goto("save_to_json")
    /\ UNCHANGED <<installed, pandasVersion, fs, dirs, fs0, df,
                   saveCalls, saveArgs, saveRet>>

\* Step 6 of main: convert, save_to_json(..., "raw_data.json"), return 0.
ConvertAndSave ==
    /\ pc = "save_to_json"
    /\ stages' = Append(stages, "save_to_json")
    /\ LET data == ExportRecords(df)
       IN  \E io \in IoOutcomes(data) :
              LET r == save_to_json(data, <<"raw_data.json">>, io)
              IN  /\ fs' = r.files
                  /\ saveRet' = Ret(r.ret)
                  /\ saveArgs' = [data |-> data, filename |-> <<"raw_data.json">>]
                  /\ saveCalls' = saveCalls + 1
                  /\ pc' = "done"
                  /\ exitCode' = ExitAfterExport(df, r.ret)
    /\ UNCHANGED <<installed, pandasVersion, dirs, fs0, df, validRet>>

Next ==
    \/ CheckDependencies
    \/ CheckFileExists
    \/ EnsureOutputDir
    \/ ReadExcelData
    \/ ValidateColumns
    \/ ConvertAndSave

Spec == Init /\ [][Next]_vars

(***************************************************************************)
(* save_to_json called on its own, with any filename and any records.      *)
(***************************************************************************)
InitWriter ==
    /\ pc = "call"
    /\ InitCommon
    /\ installed = Libraries

\* The record lists handed to save_to_json.
WriterData == {convert_to_json_safe(read_excel(s)) : s \in WriterSheets}

CallSave ==
    /\ pc = "call"
    /\ \E filename \in Filenames, data \in WriterData :
         \E io \in IoOutcomes(data) :
            LET r == save_to_json(data, filename, io)
            IN  /\ fs' = r.files
                /\ saveRet' = Ret(r.ret)
                /\ saveArgs' = [data |-> data, filename |-> filename]
                /\ saveCalls' = saveCalls + 1
                /\ pc' = "returned"
    /\ UNCHANGED <<exitCode, installed, pandasVersion, dirs, fs0, df,
                   validRet, stages>>

NextWriter == CallSave

SpecWriter == InitWriter /\ [][NextWriter]_vars


(***************************************************************************)
(* The properties.                                                         *)
(***************************************************************************)
\* The path main writes: OUTPUT_DIR / "raw_data.json".
OutFile == Join(OUTPUT_DIR, <<"raw_data.json">>)

\* The order of the stages in main.
StageOrder ==
    <<"check_dependencies", "check_file_exists", "ensure_output_dir",
      "read_excel_data", "validate_columns", "save_to_json">>

\* The keys of a record, in order, and the values of a list of records.
Keys(rec) == [c \in 1..Len(rec) |-> rec[c].k]
Values(data) == [i \in 1..Len(data) |-> [c \in 1..Len(data[i]) |-> data[i][c].v]]

\* The same frame with the first column named as expected.
Renamed(frame) == [frame EXCEPT !.columns[1] = "m"]

\* C1: a run of main ends with exit code 1 when any stage failed (the
\* dependency check, the file check, the read, or the write), and with exit
\* code 0 only when every stage, the write included, succeeded.
C1_ExitCodeReflectsEveryStage ==
    pc = "done" =>
        (exitCode = 0 <=>
            /\ check_dependencies
            /\ check_file_exists
            /\ ~df.isNone
            /\ saveRet = "True")

\* C2: the stages run in the fixed order, each only after every earlier
\* gate succeeded; a run in which the dependency check, the file check or
\* the read fails ends with exit code 1, never calls save_to_json and
\* leaves every file as it was.
C2_StagesGatedInOrder ==
    /\ Len(stages) <= Len(StageOrder)
    /\ stages = SubSeq(StageOrder, 1, Len(stages))
    /\ (Len(stages) >= 2 => check_dependencies)
    /\ (Len(stages) >= 3 => check_file_exists)
    /\ (Len(stages) >= 5 => ~df.isNone)
    /\ (saveCalls > 0 => Len(stages) = Len(StageOrder))
    /\ (pc = "done" /\ (~check_dependencies \/ ~check_file_exists \/ df.isNone)
            => exitCode = 1 /\ saveCalls = 0 /\ fs = fs0)

\* C2 witness: a run with the libraries installed and the spreadsheet
\* absent has ended.
C2_Witness ==
    /\ pc = "done"
    /\ check_dependencies
    /\ ~check_file_exists
    /\ exitCode = 1
    /\ stages = SubSeq(StageOrder, 1, 2)

\* C3: in every complete export document on disk, metadata.total_records
\* is the number of entries of data.
C3_TotalRecordsIsLenData ==
    \A q \in DOMAIN fs :
        fs[q].kind = "export" =>
            fs[q].doc.metadata.total_records = Len(fs[q].doc.data)

\* C3 witness: a direct call has written an export of two records.
C3_Witness ==
    /\ pc = "returned"
    /\ saveRet = "True"
    /\ Len(saveArgs.data) = 2
    /\ fs[Resolve(Join(OUTPUT_DIR, saveArgs.filename))]
          = Content("export", output_data(saveArgs.data))

\* C4: whatever the filename, every file save_to_json creates or changes
\* lies inside OUTPUT_DIR, and the spreadsheet is never written.
C4_WritesOnlyInsideOutputDir ==
    \A q \in DOMAIN fs :
        (q \notin DOMAIN fs0 \/ fs[q] # fs0[q]) =>
            IsAncestor(OUTPUT_DIR, q) /\ q # EXCEL_PATH

\* C5: when the text of the output path (OUTPUT_DIR / filename) does not
\* contain "output", save_to_json returns False and no file is created or
\* changed.
C5_GuardRefusesAndWritesNothing ==
    (pc = "returned"
        /\ ~Contains(PathStr(Join(OUTPUT_DIR, saveArgs.filename)), "output"))
    => (saveRet = "False" /\ fs = fs0)

\* C5 witness: a direct call with such a filename has returned.
C5_Witness ==
    /\ pc = "returned"
    /\ ~Contains(PathStr(Join(OUTPUT_DIR, saveArgs.filename)), "output")
    /\ saveRet = "False"

\* A run of main that read a worksheet with no data rows has ended.
EmptyRun == pc = "done" /\ ~df.isNone /\ len(df) = 0

C8_RecordKeysAreExpectedColumns ==
    /\ \A i \in 1..Len(saveArgs.data) : Keys(saveArgs.data[i]) = EXPECTED_COLUMNS
    /\ \A q \in DOMAIN fs :
          fs[q].kind = "export" =>
             \A i \in 1..Len(fs[q].doc.data) :
                Keys(fs[q].doc.data[i]) = fs[q].doc.metadata.columns

\* C9: every value of every record convert_to_json_safe returns is a
\* string, a number, a boolean or null, and a cell that was empty in the
\* worksheet is null.
C9_RecordsAreJsonScalars ==
    (pc = "done" /\ saveCalls = 1) =>
        \A i \in 1..Len(saveArgs.data) :
            \A c \in 1..Len(saveArgs.data[i]) :
                /\ saveArgs.data[i][c].v.t \in {"str", "num", "bool", "null"}
                /\ (~notnull(df.rows[i][c]) => saveArgs.data[i][c].v = None)

\* C10: when save_to_json returns False, every file is as it was before
\* the call.
C10_FailedSaveLeavesFilesUntouched ==
    saveRet = "False" => fs = fs0

=============================================================================
